---------------------------- MODULE Spec2Model ----------------------------
(***************************************************************************)
(* Model of src/cknn/cknn.py: the connectivity enforcer (connect_rng), the *)
(* cluster distance reducer (concat_cluster), the edge pruner (cut_rng)    *)
(* and the graph builder (CkNearestNeighbors.cknneighbors_graph).          *)
(*                                                                         *)
(* Conventions.                                                            *)
(*  - A matrix is a function [0..r-1 -> [0..c-1 -> Nat]].                  *)
(*  - A graph is a record [n |-> number of nodes, e |-> set of <<i, j>>],  *)
(*    the nonzero pattern of the sparse matrix the code holds.             *)
(*  - An optional Python value is a sequence: << >> is None, <<v>> is v.   *)
(*  - A raised exception is named by its Python class; "ValueError" is the *)
(*    InvalidArgument of the specification, "Exception" (the message       *)
(*    "Difficult to find connected graph") its GraphInfeasible.            *)
(*  - The library routines the code calls (radius_neighbors_graph,         *)
(*    kneighbors_graph, connected_components, has_path, numpy indexing and *)
(*    truth testing) are modelled by what they do on the values the code   *)
(*    hands them.                                                          *)
(*  - The libraries are those the code was written for: np.float and       *)
(*    np.int exist, and numba.jit runs the decorated functions as plain    *)
(*    Python (object mode).                                                *)
(***************************************************************************)
EXTENDS Integers, Sequences, FiniteSets, TLC

VARIABLES
    pc,               \* position of the running call
    err,              \* class of the exception raised, "none" when none
    result,           \* graph returned by the call, NoGraph before / on error
    dmatrix,          \* connect_rng: the matrix it was called with
    radius,           \* connect_rng: the current threshold
    radius0,          \* connect_rng: the threshold it was called with
    minimize,         \* connect_rng: force mode
    same_nbrs,        \* connect_rng: route the result through cut_rng
    neighbors,        \* self.neighbors
    rng,              \* connect_rng: current graph / cut_rng: base graph
    rng_orig,         \* connect_rng: base graph kept in force mode
    rng_minimize,     \* connect_rng: critical connections / cut_rng: critical_conn
    indices,          \* connect_rng: the index map (optional)
    n_components,     \* current number of components
    labels,           \* current component label of each row
    cropped_dmatrix,  \* connect_rng: current (reduced) matrix / concat_cluster: prev_dmatrix
    self_delta,       \* self.delta (optional)
    self_k,           \* self.k (optional)
    rounds,           \* number of loop rounds entered so far
    X,                \* cknneighbors_graph: the input matrix
    n_neighbors,      \* self.n_neighbors
    connected,        \* self.connected
    conn_type,        \* self.conn_type
    directed,         \* self.directed
    ratio_matrix,     \* cknneighbors_graph: numerator and squared denominator of each ratio
    nbr_called,       \* a neighbor-graph routine has been entered
    next_dmatrix      \* concat_cluster: the matrix returned

vars == <<pc, err, result, dmatrix, radius, radius0, minimize, same_nbrs,
          neighbors, rng, rng_orig, rng_minimize, indices, n_components,
          labels, cropped_dmatrix, self_delta, self_k, rounds, X,
          n_neighbors, connected, conn_type, directed, ratio_matrix,
          nbr_called, next_dmatrix>>

---------------------------------------------------------------------------
(* Bounds and constants *)

\* Number of points handed to connect_rng.
NPoints == 4

\* Off-diagonal distances and initial thresholds handed to connect_rng.
Dists == {1, 2}
Radii == {0} \cup Dists

\* Largest side of a matrix handed to concat_cluster directly.
MaxSide == 3

\* Number of samples handed to cknneighbors_graph.
NSamples == 3

\* Number of nodes of the graphs handed to cut_rng directly.
CutNodes == 3

\* INF = 1.0e308 in the source; here any value above every distance.
INF == 1000000000

Idx(n) == 0 .. (n - 1)

NoGraph == [n |-> 0, e |-> {}]
NoMatrix == << >>
None == << >>
Some(v) == <<v>>

---------------------------------------------------------------------------
(* Arrays and matrices *)

NRows(M) == Cardinality(DOMAIN M)
NCols(M) == IF DOMAIN M = {} THEN 0 ELSE Cardinality(DOMAIN M[0])

SetMin(S) == CHOOSE x \in S : \A y \in S : x <= y
SetMax(S) == CHOOSE x \in S : \A y \in S : y <= x

\* np.argmin of a sequence: index (from 1) of the first minimum.
ArgMinSeq(s) == SetMin({a \in 1 .. Len(s) : \A b \in 1 .. Len(s) : s[a] <= s[b]})

Symmetric(M) == \A i \in DOMAIN M : \A j \in DOMAIN M : M[i][j] = M[j][i]

\* Truth value of an optional numpy array given by its shape (`if x:`):
\* None is false, an array of more than one element raises ValueError
\* ("The truth value of an array with more than one element is ambiguous").
ArraySize(shape) == shape[1] * shape[2] * shape[3]
Truthy(opt) ==
    IF Len(opt) = 0 THEN "False"
    ELSE IF ArraySize(opt[1].shape) > 1 THEN "ValueError"
    ELSE IF ArraySize(opt[1].shape) = 0 THEN "False"
    ELSE "True"

---------------------------------------------------------------------------
(* Graphs *)

Union(g, h) == [n |-> g.n, e |-> g.e \cup h.e]

\* radius_neighbors_graph(M, r, metric='precomputed'): i -> j for every other
\* row j whose precomputed distance M[i][j] is within r.
RadiusGraph(M, r) ==
    [n |-> NRows(M),
     e |-> {p \in Idx(NRows(M)) \X Idx(NRows(M)) : p[1] # p[2] /\ M[p[1]][p[2]] <= r}]

RECURSIVE WeakReach(_, _)
WeakReach(g, S) ==
    LET T == S \cup {j \in Idx(g.n) : \E s \in S : <<s, j>> \in g.e \/ <<j, s>> \in g.e}
    IN  IF T = S THEN S ELSE WeakReach(g, T)

RECURSIVE Reach(_, _)
Reach(g, S) ==
    LET T == S \cup {j \in Idx(g.n) : \E s \in S : <<s, j>> \in g.e}
    IN  IF T = S THEN S ELSE Reach(g, T)

\* connected_components(g): weak components, labelled in order of their
\* first row.
ComponentRoot(g, i) == SetMin(WeakReach(g, {i}))
ConnectedComponents(g) ==
    LET roots == {ComponentRoot(g, i) : i \in Idx(g.n)}
    IN  [n_components |-> Cardinality(roots),
         labels |-> [i \in Idx(g.n) |->
                        Cardinality({r \in roots : r < ComponentRoot(g, i)})]]

NumComponents(g) == ConnectedComponents(g).n_components

---------------------------------------------------------------------------
(* concat_cluster (lines 17-42, and the identical method at 254-279) *)

RECURSIVE SortedSeq(_)
SortedSeq(S) ==
    IF S = {} THEN << >> ELSE <<SetMin(S)>> \o SortedSeq(S \ {SetMin(S)})

\* Rows selected by the boolean mask `labels == p`, in row order.
Members(lab, p) == SortedSeq({i \in DOMAIN lab : lab[i] = p})

\* prev_dmatrix[labels == p][:, labels == q], flattened in row-major order.
CroppedFlat(prev, lab, p, q) ==
    LET R == Members(lab, p)
        C == Members(lab, q)
    IN  [t \in 1 .. (Len(R) * Len(C)) |->
            prev[R[((t - 1) \div Len(C)) + 1]][C[((t - 1) % Len(C)) + 1]]]

\* Variant of ReducedEntry: the first entry of the block instead of its least.
ReducedEntryFirst(prev, lab, p, q) == CroppedFlat(prev, lab, p, q)[1]

\* One off-diagonal entry: cropped_dmatrix.flatten()[np.argmin(cropped_dmatrix)].
ReducedEntry(prev, lab, p, q) ==
    LET flat == CroppedFlat(prev, lab, p, q)
    IN  flat[ArgMinSeq(flat)]

Raised(kind) == [raised |-> kind, dmatrix |-> NoMatrix]

concat_cluster(prev, nc, lab, prev_indices) ==
    IF NRows(prev) # NCols(prev)
    THEN Raised("ValueError")                      \* line 19-20: not square
    ELSE IF Truthy(prev_indices) = "ValueError"
    THEN Raised("ValueError")                      \* line 24: `if prev_indices:` on an array
    ELSE IF \E p \in Idx(nc) : Members(lab, p) = << >>
    THEN Raised("ValueError")                      \* line 33: argmin of an empty block
    ELSE [raised |-> "none",
          dmatrix |-> [p \in Idx(nc) |-> [q \in Idx(nc) |->
                          IF p = q THEN INF ELSE ReducedEntry(prev, lab, p, q)]]]

---------------------------------------------------------------------------
(* cut_rng (lines 44-65, and the identical method at 281-302) *)

\* rng is a csr_matrix, so rng[r_rng_part, c_rng_part] is a 1 x m matrix and
\* ind_indices = np.argsort(-...) is 1 x m as well, holding 0 .. m-1; m is the
\* number of base edges of the row.  indices has shape (2, m).
\*   line 292  indices[ind_indices] indexes the axis of length 2 with the
\*             values 0 .. m-1: IndexError when m > 2, else shape (1, m, m);
\*   line 293  `for i, j in indices` unpacks the one m x m block into two
\*             names: ValueError unless m = 2;
\*   line 294-295  with m = 2, i and j are arrays; has_path is handed the
\*             sparse matrix and the arrays and raises an exception that is
\*             not NetworkXNoPath (named "PathQueryError" here).
\* No row with a critical connection is processed without an exception.
RowFailure(m) ==
    IF m > 2 THEN "IndexError" ELSE IF m = 2 THEN "PathQueryError" ELSE "ValueError"

\* Rows with n_conn > 0 in np.bincount(conn_row).
ConnRows(critical_conn) == {p[1] : p \in critical_conn.e}

RowEdges(g, i) == {p \in g.e : p[1] = i}

cut_rng(base, critical_conn) ==
    IF ConnRows(critical_conn) = {}
    THEN [raised |-> "none", graph |-> Union(base, critical_conn)]   \* line 46, 65
    ELSE [raised |-> RowFailure(Cardinality(RowEdges(base, SetMin(ConnRows(critical_conn))))),
          graph |-> NoGraph]

---------------------------------------------------------------------------
(* connect_rng (the method, lines 304-354; the function at 67-113 is the   *)
(* same without the stores to self.delta / self.k)                         *)

\* lines 314-316: indices[0][i][j] = j, indices[1][i][j] = i.
IndexArray(nd) ==
    [shape |-> <<2, nd, nd>>,
     val |-> [a \in 0 .. 1 |-> [i \in Idx(nd) |-> [j \in Idx(nd) |->
                 IF a = 0 THEN j ELSE i]]]]

\* np.argmin(cropped_dmatrix, axis=1): first minimum of each row (from 0).
ArgMinRow(M, p) == ArgMinSeq([t \in 1 .. NCols(M) |-> M[p][t - 1]]) - 1

\* line 336: np.max(cropped_dmatrix[r_ptr, argmin_dmatrix]).
NewRadius(M) == SetMax({M[p][ArgMinRow(M, p)] : p \in DOMAIN M})

\* Variant of NatureGraph: neighbors strictly inside the radius.
NatureGraphStrict(M, r) ==
    [n |-> NRows(M),
     e |-> {p \in Idx(NRows(M)) \X Idx(NRows(M)) : p[1] # p[2] /\ M[p[1]][p[2]] < r}]

\* line 354: the graph returned in nature mode.
NatureGraph(M, r) == RadiusGraph(M, r)

OrderedPairs(n) == {p \in Idx(n) \X Idx(n) : p[1] # p[2]}
UpperPairs(n) == {p \in Idx(n) \X Idx(n) : p[1] < p[2]}

RECURSIVE ProductOf(_, _)
ProductOf(R, S) ==
    IF S = {} THEN 1
    ELSE LET p == CHOOSE y \in S : TRUE
         IN  R[p[1]][p[2]].sqden * ProductOf(R, S \ {p})

\* Common denominator of the squared ratios of a ratio matrix (see the
\* section on cknneighbors_graph).
Scale(R) == ProductOf(R, OrderedPairs(NRows(R)))

\* line 351: the radius as self.delta holds it.  Under cknneighbors_graph
\* the matrix handed over holds squared ratios over the common denominator,
\* under a direct call plain numbers.
StoredDelta(r) ==
    IF ratio_matrix = NoMatrix THEN r
    ELSE [sqnum |-> r, sqden |-> Scale(ratio_matrix)]

\* line 353: int(radius + 0.5) of an integral radius.
RoundHalfUp(r) == (2 * r + 1) \div 2

Enter ==
    /\ pc = "call"
    /\ LET g == RadiusGraph(dmatrix, radius)
           cc == ConnectedComponents(g)
       IN  /\ rng' = g
           /\ rng_orig' = IF minimize THEN g ELSE NoGraph
           /\ rng_minimize' = IF minimize THEN [n |-> g.n, e |-> {}] ELSE NoGraph
           /\ indices' = IF minimize THEN Some(IndexArray(NRows(dmatrix))) ELSE None
           /\ n_components' = cc.n_components
           /\ labels' = cc.labels
    /\ cropped_dmatrix' = dmatrix
    /\ pc' = "loop"
    /\ UNCHANGED <<err, result, dmatrix, radius, radius0, minimize, same_nbrs,
                   neighbors, self_delta, self_k, rounds, X, n_neighbors,
                   connected, conn_type, directed, ratio_matrix, nbr_called,
                   next_dmatrix>>

\* The body of the loop in nature mode (lines 325-328, 336-339).
NatureRound(cropped, nc, lab) ==
    LET res == concat_cluster(cropped, nc, lab, None)
    IN  IF res.raised # "none"
        THEN [raised |-> res.raised]
        ELSE LET r == NewRadius(res.dmatrix)
                 g == RadiusGraph(res.dmatrix, r)
                 cc == ConnectedComponents(g)
             IN  [raised |-> "none", dmatrix |-> res.dmatrix, radius |-> r,
                  rng |-> g, n_components |-> cc.n_components, labels |-> cc.labels]

\* One round of the loop in nature mode.
RoundNature ==
    /\ pc = "loop"
    /\ n_components # 1
    /\ ~minimize
    /\ rounds' = rounds + 1
    /\ LET step == NatureRound(cropped_dmatrix, n_components, labels)
       IN  IF step.raised # "none"
           THEN /\ pc' = "raised"
                /\ err' = step.raised
                /\ UNCHANGED <<cropped_dmatrix, radius, rng, n_components, labels>>
           ELSE /\ cropped_dmatrix' = step.dmatrix
                /\ radius' = step.radius
                /\ rng' = step.rng
                /\ n_components' = step.n_components
                /\ labels' = step.labels
                /\ UNCHANGED <<pc, err>>
    /\ UNCHANGED <<result, dmatrix, radius0, minimize, same_nbrs, neighbors,
                   rng_orig, rng_minimize, indices, self_delta, self_k, X,
                   n_neighbors, connected, conn_type, directed, ratio_matrix,
                   nbr_called, next_dmatrix>>

\* One round of the loop in force mode (lines 319-323): concat_cluster is
\* entered with the 2 x nd x nd index array, whose truth test at line 24
\* raises; lines 327-339 are not reached.
RoundForce ==
    /\ pc = "loop"
    /\ n_components # 1
    /\ minimize
    /\ rounds' = rounds + 1
    /\ LET res == concat_cluster(cropped_dmatrix, n_components, labels, indices)
       IN  /\ res.raised # "none"
           /\ pc' = "raised"
           /\ err' = res.raised
    /\ UNCHANGED <<result, dmatrix, radius, radius0, minimize, same_nbrs,
                   neighbors, rng, rng_orig, rng_minimize, indices,
                   n_components, labels, cropped_dmatrix, self_delta, self_k,
                   X, n_neighbors, connected, conn_type, directed,
                   ratio_matrix, nbr_called, next_dmatrix>>

\* Loop exit in nature mode (lines 349-354).
ReturnNature ==
    /\ pc = "loop"
    /\ n_components = 1
    /\ ~minimize
    /\ self_delta' = IF neighbors = "delta" THEN Some(StoredDelta(radius)) ELSE self_delta
    /\ self_k' = IF neighbors = "delta" THEN self_k ELSE Some(RoundHalfUp(radius))
    /\ result' = NatureGraph(dmatrix, radius)
    /\ pc' = "returned"
    /\ UNCHANGED <<err, dmatrix, radius, radius0, minimize, same_nbrs, neighbors,
                   rng, rng_orig, rng_minimize, indices, n_components, labels,
                   cropped_dmatrix, rounds, X, n_neighbors, connected,
                   conn_type, directed, ratio_matrix, nbr_called, next_dmatrix>>

\* Loop exit in force mode (lines 344-348).
ReturnForce ==
    /\ pc = "loop"
    /\ n_components = 1
    /\ minimize
    /\ IF same_nbrs
       THEN LET cut == cut_rng(rng_orig, rng_minimize)
            IN  IF cut.raised # "none"
                THEN pc' = "raised" /\ err' = cut.raised /\ UNCHANGED result
                ELSE pc' = "returned" /\ result' = cut.graph /\ UNCHANGED err
       ELSE pc' = "returned" /\ result' = Union(rng_orig, rng_minimize) /\ UNCHANGED err
    /\ UNCHANGED <<dmatrix, radius, radius0, minimize, same_nbrs, neighbors, rng,
                   rng_orig, rng_minimize, indices, n_components, labels,
                   cropped_dmatrix, self_delta, self_k, rounds, X, n_neighbors,
                   connected, conn_type, directed, ratio_matrix, nbr_called,
                   next_dmatrix>>

(* Inputs of a connect_rng call *)

\* Symmetric matrices with a zero diagonal (delta mode hands over one).
SymMatrices(n) ==
    {[i \in Idx(n) |-> [j \in Idx(n) |->
         IF i = j THEN 0 ELSE IF i < j THEN f[<<i, j>>] ELSE f[<<j, i>>]]] :
        f \in [UpperPairs(n) -> Dists]}

\* The same with at most one entry changed (k mode hands over the order
\* matrix, which is not symmetric).
InputMatrices(n) ==
    {[S EXCEPT ![q[1][1]][q[1][2]] = q[2]] :
        S \in SymMatrices(n), q \in OrderedPairs(n) \X Dists}

Init ==
    /\ pc = "call"
    /\ err = "none"
    /\ result = NoGraph
    /\ dmatrix \in InputMatrices(NPoints)
    /\ radius \in Radii
    /\ radius0 = radius
    /\ minimize \in BOOLEAN
    /\ neighbors \in {"delta", "k"}
    /\ same_nbrs = (minimize /\ neighbors = "k")     \* as lines 195-198, 217-220 call it
    /\ rng = NoGraph
    /\ rng_orig = NoGraph
    /\ rng_minimize = NoGraph
    /\ indices = None
    /\ n_components = 0
    /\ labels = << >>
    /\ cropped_dmatrix = NoMatrix
    /\ self_delta = IF neighbors = "delta" THEN Some(radius) ELSE None
    /\ self_k = IF neighbors = "delta" THEN None ELSE Some(radius)
    /\ rounds = 0
    /\ X = NoMatrix
    /\ n_neighbors = 0
    /\ connected = TRUE
    /\ conn_type = IF minimize THEN "force" ELSE "nature"
    /\ directed = FALSE
    /\ ratio_matrix = NoMatrix
    /\ nbr_called = FALSE
    /\ next_dmatrix = NoMatrix

Next == Enter \/ RoundNature \/ RoundForce \/ ReturnNature \/ ReturnForce

Spec == Init /\ [][Next]_vars

---------------------------------------------------------------------------
(* Properties of connect_rng, checked under Spec *)

Connected(g) == NumComponents(g) = 1

BaseGraph == RadiusGraph(dmatrix, radius0)

MinimalThreshold ==
    /\ Connected(RadiusGraph(dmatrix, radius))
    /\ \A t \in 0 .. (radius - 1) : ~Connected(RadiusGraph(dmatrix, t))
    /\ IF neighbors = "delta" THEN self_delta = Some(radius) ELSE self_k = Some(radius)

NatureGrew == pc = "returned" /\ ~minimize /\ ~Connected(BaseGraph)

(* C2: in nature mode, when the base graph is not connected, the threshold *)
(* connect_rng ends with, and stores in self.delta or self.k, is minimal:  *)
(* the radius graph of the original matrix at it is one component, and at  *)
(* every smaller threshold it is not.                                      *)
C2_Claim == NatureGrew => MinimalThreshold

\* The threshold is minimal when the matrix is symmetric (delta mode); the
\* order matrix of k mode is not.
MinimalWhenSymmetric == (NatureGrew /\ Symmetric(dmatrix)) => MinimalThreshold

(* C3: every round of the loop, in nature mode and in force mode, strictly *)
(* decreases the component count, and there are at most C-1 rounds for C   *)
(* initial components.                                                     *)
C3_Claim ==
    [][(pc = "loop" /\ n_components # 1) =>
          /\ pc' = "loop"
          /\ n_components' < n_components
          /\ rounds' <= NumComponents(BaseGraph) - 1]_vars

\* The part of C3 that concerns nature mode.
NatureRoundsDecrease ==
    [][(pc = "loop" /\ n_components # 1 /\ ~minimize) =>
          /\ pc' = "loop"
          /\ n_components' < n_components
          /\ rounds' <= NumComponents(BaseGraph) - 1]_vars

\* The clusters of points in force mode: the components of the base graph
\* joined by the critical connections recorded so far.
PointClusters ==
    LET g == Union(rng_orig, rng_minimize)
    IN  {WeakReach(g, {i}) : i \in Idx(g.n)}

ClusterMin(P) ==
    SetMin({dmatrix[i][j] : i \in P, j \in Idx(NRows(dmatrix)) \ P})

(* C8: in force mode every round records, for every current cluster,       *)
(* exactly one critical connection (i, j), with i in the cluster, j        *)
(* outside it and D[i][j] the least distance from the cluster to any other.*)
C8_Claim ==
    [][(pc = "loop" /\ n_components # 1 /\ minimize) =>
          LET new == rng_minimize'.e \ rng_minimize.e
          IN  \A P \in PointClusters :
                /\ Cardinality({p \in new : p[1] \in P}) = 1
                /\ \A p \in new :
                      p[1] \in P => (p[2] \notin P /\ dmatrix[p[1]][p[2]] = ClusterMin(P))]_vars

(* C10: a force-mode run with same_nbrs hands cut_rng its base graph and   *)
(* its critical connections, and cut_rng returns a pruned, connected graph *)
(* for them: the run never ends with an exception.                         *)
C10_Claim ==
    (minimize /\ same_nbrs /\ pc \in {"returned", "raised"}) =>
        (pc = "returned" /\ err = "none" /\ Connected(result))

---------------------------------------------------------------------------
(* A direct call of concat_cluster *)

Matrices(r, c) ==
    {[i \in Idx(r) |-> [j \in Idx(c) |-> IF i = j THEN 0 ELSE f[<<i, j>>]]] :
        f \in [{p \in Idx(r) \X Idx(c) : p[1] # p[2]} -> Dists]}

Labelings(r) ==
    UNION {{l \in [Idx(r) -> Idx(nc)] : \A p \in Idx(nc) : \E i \in Idx(r) : l[i] = p} :
              nc \in 1 .. r}

InitConcat ==
    /\ pc = "call"
    /\ err = "none"
    /\ result = NoGraph
    /\ \E r \in 2 .. MaxSide, c \in 2 .. MaxSide : cropped_dmatrix \in Matrices(r, c)
    /\ labels \in Labelings(NRows(cropped_dmatrix))
    /\ n_components = Cardinality({labels[i] : i \in DOMAIN labels})
    /\ indices \in {None, Some(IndexArray(NRows(cropped_dmatrix)))}
    /\ dmatrix = NoMatrix
    /\ radius = 0
    /\ radius0 = 0
    /\ minimize = FALSE
    /\ same_nbrs = FALSE
    /\ neighbors = "delta"
    /\ rng = NoGraph
    /\ rng_orig = NoGraph
    /\ rng_minimize = NoGraph
    /\ self_delta = None
    /\ self_k = None
    /\ rounds = 0
    /\ X = NoMatrix
    /\ n_neighbors = 0
    /\ connected = FALSE
    /\ conn_type = "nature"
    /\ directed = FALSE
    /\ ratio_matrix = NoMatrix
    /\ nbr_called = FALSE
    /\ next_dmatrix = NoMatrix

ConcatCall ==
    /\ pc = "call"
    /\ LET res == concat_cluster(cropped_dmatrix, n_components, labels, indices)
       IN  IF res.raised # "none"
           THEN pc' = "raised" /\ err' = res.raised /\ UNCHANGED next_dmatrix
           ELSE pc' = "returned" /\ next_dmatrix' = res.dmatrix /\ UNCHANGED err
    /\ UNCHANGED <<result, dmatrix, radius, radius0, minimize, same_nbrs,
                   neighbors, rng, rng_orig, rng_minimize, indices,
                   n_components, labels, cropped_dmatrix, self_delta, self_k,
                   rounds, X, n_neighbors, connected, conn_type, directed,
                   ratio_matrix, nbr_called>>

SpecConcat == InitConcat /\ [][ConcatCall]_vars

Done == pc \in {"returned", "raised"}

SquareInput == NRows(cropped_dmatrix) = NCols(cropped_dmatrix)

Cluster(p) == {i \in DOMAIN labels : labels[i] = p}

IsBlockMinimum(v, p, q) ==
    /\ \A i \in Cluster(p), j \in Cluster(q) : v <= cropped_dmatrix[i][j]
    /\ \E i \in Cluster(p), j \in Cluster(q) : v = cropped_dmatrix[i][j]

(* C5: for a square matrix and labels naming C' non-empty clusters,        *)
(* concat_cluster (called as nature mode calls it, without an index map)   *)
(* returns, and the matrix it returns is the C' x C' matrix of the least   *)
(* entries between distinct clusters with INF on the diagonal; for a       *)
(* matrix that is not square it raises ValueError.                         *)
C5_ReducedMatrix ==
    /\ (Done /\ ~SquareInput) => (pc = "raised" /\ err = "ValueError")
    /\ (Done /\ SquareInput /\ indices = None) => pc = "returned"
    /\ pc = "returned" =>
          /\ SquareInput
          /\ DOMAIN next_dmatrix = Idx(n_components)
          /\ \A p \in Idx(n_components) :
                /\ DOMAIN next_dmatrix[p] = Idx(n_components)
                /\ \A q \in Idx(n_components) :
                      IF p = q THEN next_dmatrix[p][q] = INF
                      ELSE IsBlockMinimum(next_dmatrix[p][q], p, q)

C5_Witness ==
    /\ pc = "returned"
    /\ n_components = 2
    /\ NRows(cropped_dmatrix) = 3
    /\ next_dmatrix[0][1] # next_dmatrix[1][0]
    /\ next_dmatrix[0][1] # cropped_dmatrix[0][SetMin(Cluster(1))]
    /\ IsBlockMinimum(next_dmatrix[0][1], 0, 1)

---------------------------------------------------------------------------
(* A direct call of cut_rng *)

Graphs(n) == {[n |-> n, e |-> E] : E \in SUBSET OrderedPairs(n)}

InitCut ==
    /\ pc = "call"
    /\ err = "none"
    /\ result = NoGraph
    /\ rng \in Graphs(CutNodes)
    /\ rng_minimize \in Graphs(CutNodes)
    /\ rng_orig = rng
    /\ dmatrix = NoMatrix
    /\ radius = 0
    /\ radius0 = 0
    /\ minimize = TRUE
    /\ same_nbrs = TRUE
    /\ neighbors = "k"
    /\ indices = None
    /\ n_components = 0
    /\ labels = << >>
    /\ cropped_dmatrix = NoMatrix
    /\ self_delta = None
    /\ self_k = None
    /\ rounds = 0
    /\ X = NoMatrix
    /\ n_neighbors = 0
    /\ connected = TRUE
    /\ conn_type = "force"
    /\ directed = FALSE
    /\ ratio_matrix = NoMatrix
    /\ nbr_called = FALSE
    /\ next_dmatrix = NoMatrix

CutCall ==
    /\ pc = "call"
    /\ LET cut == cut_rng(rng, rng_minimize)
       IN  IF cut.raised # "none"
           THEN pc' = "raised" /\ err' = cut.raised /\ UNCHANGED result
           ELSE pc' = "returned" /\ result' = cut.graph /\ UNCHANGED err
    /\ UNCHANGED <<dmatrix, radius, radius0, minimize, same_nbrs, neighbors, rng,
                   rng_orig, rng_minimize, indices, n_components, labels,
                   cropped_dmatrix, self_delta, self_k, rounds, X, n_neighbors,
                   connected, conn_type, directed, ratio_matrix, nbr_called,
                   next_dmatrix>>

SpecCut == InitCut /\ [][CutCall]_vars

\* has_path(g, i, j) or has_path(g, j, i)
PathEitherWay(g, i, j) == j \in Reach(g, {i}) \/ i \in Reach(g, {j})

Without(g, p) == [n |-> g.n, e |-> g.e \ {p}]

(* C4: cut_rng prunes without disconnecting: it ends by returning a graph  *)
(* (or with GraphInfeasible, its one failure), and the graph it returns    *)
(* has as many components as the base graph united with the critical       *)
(* connections, no more edges than that union, and every edge it removed   *)
(* still has its endpoints joined by a path.                               *)
C4_Claim ==
    Done =>
        /\ err \in {"none", "Exception"}
        /\ err = "none" =>
              LET whole == Union(rng, rng_minimize)
              IN  /\ NumComponents(result) = NumComponents(whole)
                  /\ Cardinality(result.e) <= Cardinality(whole.e)
                  /\ \A p \in whole.e \ result.e : PathEitherWay(result, p[1], p[2])

\* The processing of one row as C9 states it: the candidates are tried in
\* order; a removal that leaves a path is kept and the next candidate is
\* tried, the first removal that leaves none is undone and ends the row.
RECURSIVE PruneRowAsStated(_, _)
PruneRowAsStated(g, cands) ==
    IF cands = << >> THEN g
    ELSE LET p == Head(cands)
             h == Without(g, p)
         IN  IF PathEitherWay(h, p[1], p[2])
             THEN PruneRowAsStated(h, Tail(cands))
             ELSE g

\* The non-critical base edges of row i, in column order.
Candidates(i) ==
    LET cols == SortedSeq({p[2] : p \in RowEdges(rng, i) \ rng_minimize.e})
    IN  [t \in 1 .. Len(cols) |-> <<i, cols[t]>>]

RECURSIVE PruneAsStated(_, _)
PruneAsStated(g, rows) ==
    IF rows = << >> THEN g
    ELSE PruneAsStated(PruneRowAsStated(g, Candidates(Head(rows))), Tail(rows))

(* C9: in every processed row the candidates are tried one after another,  *)
(* an accepted removal being followed by the row's next candidate and the  *)
(* first rejected one ending the row.                                      *)
C9_Claim ==
    Done =>
        /\ err \in {"none", "Exception"}
        /\ err = "none" =>
              result = PruneAsStated(Union(rng, rng_minimize),
                                     SortedSeq(ConnRows(rng_minimize)))

---------------------------------------------------------------------------
(* CkNearestNeighbors.cknneighbors_graph (lines 152-252), called with      *)
(* metric='precomputed', include_self=False, t='inf', is_sparse=True.      *)
(*                                                                         *)
(* A ratio D / sqrt(G) is held exactly as the record                       *)
(* [sqnum |-> D * D, sqden |-> G] of its square; so is a threshold delta.  *)
(* The neighbor routines only compare ratios with each other and with the  *)
(* threshold, so they are handed the squares multiplied by a common        *)
(* denominator, which keeps every comparison.                              *)

IndexPermutations(n) ==
    {f \in [Idx(n) -> Idx(n)] : \A a \in Idx(n), b \in Idx(n) : f[a] = f[b] => a = b}

\* np.partition(row, kth): some rearrangement of the row with the kth
\* smallest value at position kth, nothing larger before it and nothing
\* smaller after it; the order within the two sides is not specified.
RowPartitions(row, kth) ==
    {s \in {[t \in DOMAIN row |-> row[f[t]]] : f \in IndexPermutations(Cardinality(DOMAIN row))} :
        /\ \A t \in DOMAIN row : t < kth => s[t] <= s[kth]
        /\ \A t \in DOMAIN row : t > kth => s[t] >= s[kth]}

\* line 184: np.partition(dmatrix, n_neighbors), every row partitioned.
PartitionedMatrices(M, kth) ==
    {P \in [DOMAIN M -> UNION {RowPartitions(M[i], kth) : i \in DOMAIN M}] :
        \A i \in DOMAIN M : P[i] \in RowPartitions(M[i], kth)}

RECURSIVE SumSeq(_, _)
SumSeq(f, S) ==
    IF S = {} THEN 0
    ELSE LET x == CHOOSE y \in S : TRUE IN f[x] + SumSeq(f, S \ {x})

\* line 185: darray_n_nbrs.dot(darray_n_nbrs.T), entry (i, j).
DotRows(P, i, j) == SumSeq([t \in DOMAIN P[i] |-> P[i][t] * P[j][t]], DOMAIN P[i])

\* lines 185-187: dmatrix / np.sqrt(darray_n_nbrs.dot(darray_n_nbrs.T)),
\* then the diagonal set to 0.
RatioMatrix(M, P) ==
    [i \in DOMAIN M |-> [j \in DOMAIN M |->
        IF i = j THEN [sqnum |-> 0, sqden |-> 1]
        ELSE [sqnum |-> M[i][j] * M[i][j], sqden |-> DotRows(P, i, j)]]]

\* The squared ratios over the common denominator.
Scaled(R) ==
    [i \in DOMAIN R |-> [j \in DOMAIN R |->
        R[i][j].sqnum * (Scale(R) \div R[i][j].sqden)]]

\* The squared threshold over the same denominator (rounded down, which
\* keeps every comparison `entry <= threshold`).
ScaledThreshold(d, R) == (d.sqnum * Scale(R)) \div d.sqden

\* Position of column j in np.argsort of row i (lines 210-215).
Rank(M, i, j) ==
    Cardinality({l \in DOMAIN M[i] :
                    M[i][l] < M[i][j] \/ (M[i][l] = M[i][j] /\ l < j)})

OrderMatrix(M) == [i \in DOMAIN M |-> [j \in DOMAIN M |-> Rank(M, i, j)]]

\* kneighbors_graph(M, kk, metric='precomputed'): the kk nearest other rows.
KNeighborsGraph(M, kk) ==
    [n |-> NRows(M),
     e |-> {p \in OrderedPairs(NRows(M)) :
              Cardinality({l \in DOMAIN M \ {p[1]} :
                  M[p[1]][l] < M[p[1]][p[2]]
                  \/ (M[p[1]][l] = M[p[1]][p[2]] /\ l < p[2])}) < kk}]

\* lines 226-230: adjacency + adjacency.T with every entry set to 1.
Symmetrized(g) == [n |-> g.n, e |-> g.e \cup {<<p[2], p[1]>> : p \in g.e}]

\* The classes with which a neighbor routine rejects a threshold of None;
\* which one depends on the release of the library.
LibraryRejects == {"TypeError", "ValueError"}

Thresholds == {None, Some([sqnum |-> 0, sqden |-> 1]),
               Some([sqnum |-> 1, sqden |-> 4]), Some([sqnum |-> 1, sqden |-> 1])}

InitBuild ==
    /\ pc = "start"
    /\ err = "none"
    /\ result = NoGraph
    /\ X \in SymMatrices(NSamples)
    /\ n_neighbors \in 0 .. NSamples
    /\ neighbors \in {"delta", "k", "radius"}
    /\ self_delta \in Thresholds
    /\ self_k \in {None} \cup {Some(kk) : kk \in 1 .. (NSamples - 1)}
    /\ connected \in BOOLEAN
    /\ conn_type \in {"nature", "force", "strong"}
    /\ directed \in BOOLEAN
    /\ dmatrix = NoMatrix
    /\ radius = 0
    /\ radius0 = 0
    /\ minimize = FALSE
    /\ same_nbrs = FALSE
    /\ rng = NoGraph
    /\ rng_orig = NoGraph
    /\ rng_minimize = NoGraph
    /\ indices = None
    /\ n_components = 0
    /\ labels = << >>
    /\ cropped_dmatrix = NoMatrix
    /\ rounds = 0
    /\ ratio_matrix = NoMatrix
    /\ nbr_called = FALSE
    /\ next_dmatrix = NoMatrix

options == <<X, n_neighbors, neighbors, connected, conn_type, directed>>

loopState == <<rng, rng_orig, rng_minimize, indices, n_components, labels,
               cropped_dmatrix, rounds, next_dmatrix>>

\* lines 166-179.
Validate ==
    /\ pc = "start"
    /\ IF \/ n_neighbors < 1
          \/ n_neighbors > NRows(X) - 1
          \/ NRows(X) < 2
          \/ NRows(X) # NCols(X)
       THEN pc' = "raised" /\ err' = "ValueError"
       ELSE pc' = "ratio" /\ UNCHANGED err
    /\ UNCHANGED <<result, dmatrix, radius, radius0, minimize, same_nbrs,
                   self_delta, self_k, ratio_matrix, nbr_called>>
    /\ UNCHANGED options
    /\ UNCHANGED loopState

\* lines 184-187.
Ratio ==
    /\ pc = "ratio"
    /\ \E P \in PartitionedMatrices(X, n_neighbors) :
          ratio_matrix' = RatioMatrix(X, P)
    /\ pc' = "dispatch"
    /\ UNCHANGED <<err, result, dmatrix, radius, radius0, minimize, same_nbrs,
                   self_delta, self_k, nbr_called>>
    /\ UNCHANGED options
    /\ UNCHANGED loopState

\* The threshold the branch reads: delta (line 190) or k (line 206).
Threshold == IF neighbors = "delta" THEN self_delta ELSE self_k

\* The matrix handed on: ratio_matrix (lines 195-204, 225) or order_matrix
\* (lines 217-220).
HandedMatrix ==
    IF neighbors = "k" /\ connected THEN OrderMatrix(Scaled(ratio_matrix))
    ELSE Scaled(ratio_matrix)

HandedThreshold ==
    IF neighbors = "delta" THEN ScaledThreshold(self_delta[1], ratio_matrix)
    ELSE self_k[1]

\* lines 189-232, up to the call of connect_rng or of a neighbor routine.
\* The ValueError of lines 191-192 and 207-208 is constructed and not
\* raised, so a missing threshold goes on to the routine called next
\* (line 203, 225, or line 307 inside connect_rng), which rejects None.
Dispatch ==
    /\ pc = "dispatch"
    /\ IF neighbors \notin {"delta", "k"}
       THEN /\ pc' = "raised"                               \* line 232
            /\ err' = "ValueError"
            /\ UNCHANGED <<result, dmatrix, radius, radius0, minimize, same_nbrs,
                           nbr_called>>
       ELSE IF connected /\ conn_type \notin {"nature", "force"}
       THEN /\ pc' = "raised"                               \* line 200, 222
            /\ err' = "ValueError"
            /\ UNCHANGED <<result, dmatrix, radius, radius0, minimize, same_nbrs,
                           nbr_called>>
       ELSE IF Threshold = None
       THEN /\ pc' = "raised"
            /\ err' \in LibraryRejects
            /\ nbr_called' = TRUE
            /\ UNCHANGED <<result, dmatrix, radius, radius0, minimize, same_nbrs>>
       ELSE IF connected
       THEN /\ pc' = "call"                                 \* line 195-198, 217-220
            /\ dmatrix' = HandedMatrix
            /\ radius' = HandedThreshold
            /\ radius0' = HandedThreshold
            /\ minimize' = (conn_type = "force")
            /\ same_nbrs' = (conn_type = "force" /\ neighbors = "k")
            /\ nbr_called' = TRUE
            /\ UNCHANGED <<err, result>>
       ELSE /\ pc' = "returned"                             \* line 203, 225
            /\ result' = IF neighbors = "delta"
                         THEN RadiusGraph(HandedMatrix, HandedThreshold)
                         ELSE KNeighborsGraph(HandedMatrix, HandedThreshold)
            /\ nbr_called' = TRUE
            /\ UNCHANGED <<err, dmatrix, radius, radius0, minimize, same_nbrs>>
    /\ UNCHANGED <<self_delta, self_k, ratio_matrix>>
    /\ UNCHANGED options
    /\ UNCHANGED loopState

\* lines 226-252: the k-mode graph made symmetric unless directed; the
\* diagonal cleared (no self loop is held); t = 'inf' keeps the adjacency.
Finalize ==
    /\ pc = "returned"
    /\ X # NoMatrix
    /\ result' = IF neighbors = "k" /\ ~directed THEN Symmetrized(result) ELSE result
    /\ pc' = "done"
    /\ UNCHANGED <<err, dmatrix, radius, radius0, minimize, same_nbrs, self_delta,
                   self_k, ratio_matrix, nbr_called>>
    /\ UNCHANGED options
    /\ UNCHANGED loopState

NextBuild ==
    \/ Validate \/ Ratio \/ Dispatch
    \/ Enter \/ RoundNature \/ RoundForce \/ ReturnNature \/ ReturnForce
    \/ Finalize

SpecBuild == InitBuild /\ [][NextBuild]_vars

BuildDone == pc \in {"done", "raised"}

\* The n_neighbors-th smallest value of row i of the input.
NthSmallest(i) ==
    LET row == X[i]
    IN  CHOOSE v \in {row[t] : t \in DOMAIN row} :
          /\ Cardinality({t \in DOMAIN row : row[t] < v}) <= n_neighbors
          /\ Cardinality({t \in DOMAIN row : row[t] <= v}) > n_neighbors

(* C6: R[i][j] = D[i][j] / sqrt(a[i] * a[j]) for i # j, with a[i] the      *)
(* n_neighbors-th smallest value of row i of D, R[i][i] = 0, and R is      *)
(* symmetric when D is.  (Squares compared by cross-multiplication.)       *)
C6_Claim ==
    ratio_matrix # NoMatrix =>
        \A i \in DOMAIN ratio_matrix : \A j \in DOMAIN ratio_matrix :
            /\ i = j => ratio_matrix[i][j].sqnum = 0
            /\ i # j =>
                  ratio_matrix[i][j].sqnum * (NthSmallest(i) * NthSmallest(j))
                     = (X[i][j] * X[i][j]) * ratio_matrix[i][j].sqden
            /\ Symmetric(X) => ratio_matrix[i][j] = ratio_matrix[j][i]

MissingThreshold ==
    \/ neighbors = "delta" /\ self_delta = None
    \/ neighbors = "k" /\ self_k = None

UnknownOption ==
    \/ neighbors \notin {"delta", "k"}
    \/ conn_type \notin {"nature", "force"}

(* C7: a call with neighbors='delta' and no delta, or neighbors='k' and no *)
(* k, or an unknown neighbors or conn_type value, ends with ValueError     *)
(* before a neighbor routine is entered and returns no graph.              *)
C7_Claim ==
    (BuildDone /\ (MissingThreshold \/ UnknownOption)) =>
        (pc = "raised" /\ err = "ValueError" /\ ~nbr_called /\ result = NoGraph)

=============================================================================
